---- MODULE Spec2Model ----
(***************************************************************************)
(* Menu extraction and normalisation of mm_bot: cfel.py (source A, HTML    *)
(* listing), desy.py (source B, date-keyed PDF table) and menu_post.py     *)
(* (source C, weekday-keyed PDF table, and the composition of the three).  *)
(*                                                                         *)
(* Text is a sequence of one-character strings.  A price is a number of    *)
(* cents.                                                                  *)
(***************************************************************************)
EXTENDS Integers, Sequences, FiniteSets, TLC

VARIABLES
    pc,             \* position of the running function
    s,              \* cfel.clean_text: its argument
    cleaned,        \* clean_text(s)
    recleaned,      \* clean_text(clean_text(s))
    text,           \* cfel.parse_price: its argument
    price,          \* parse_price(text)
    dd_elements,    \* cfel.scrape_headlines_and_prices: the texts of one meal's price cells
    item,           \* the meal's student_price and employee_price
    meals,          \* cfel.format_menus: the items to render
    special_first,  \* format_menus: its flag
    start_index,    \* format_menus: the number of the first item
    output,         \* format_menus(meals, special_first, start_index)
    header,         \* desy.clean_menu_text: the row of column headers
    daily_menu,     \* clean_menu_text: the row of the day; the result of find_daily_menu
    menu,           \* the text clean_menu_text or its caller returns or prints
    pdf_tables,     \* desy.extract_pdf_text: the table of every page so far
    caller,         \* which caller of find_daily_menu runs
    target_day,     \* menu_post: the weekday name
    page_text,      \* menu_post.extract_menu_for_day: page.extract_text()
    table           \* extract_menu_for_day: page.extract_table()

vars == <<pc, s, cleaned, recleaned, text, price, dd_elements, item,
          meals, special_first, start_index, output, header, daily_menu, menu,
          pdf_tables, caller, target_day, page_text, table>>

\* Python's None where a text is expected: no text has this shape
None == <<"None">>

\* Python's None where a price is expected: no price is negative
NoPrice == -1

\* the currency symbol
Euro == "€"

\* a with umlaut, as in "Gäste"
AUml == "ä"

-----------------------------------------------------------------------------
(* Bounds of the model                                                     *)

MaxLen == 5         \* longest text drawn for clean_text

MaxPriceLen == 6    \* longest text drawn for parse_price

MaxCells == 3       \* most price cells of one meal

MaxMeals == 2       \* most items given to format_menus

MaxStart == 2       \* start_index is drawn from 0..MaxStart, and 9

MaxCols == 2        \* most columns of the header and the row given to clean_menu_text

MaxLines == 2       \* most lines of a cell given to clean_menu_text

MaxPages == 2       \* most pages of the PDF of source B

MaxRows == 3        \* most table rows of the PDF of source B, all pages together

MaxHeaderCols == 2  \* most columns of the header row of the table of source C

MaxDataRows == 4    \* most rows under the header row of the table of source C

-----------------------------------------------------------------------------
(* Characters and text                                                     *)

Digits == {"0", "1", "2", "3", "4", "5", "6", "7", "8", "9"}

IsDigit(c) == c \in Digits

\* \s of Python's re, and the characters str.strip() and str.split() drop
IsSpace(c) == c \in {" ", "\t", "\n"}

Min(a, b) == IF a < b THEN a ELSE b

Max(a, b) == IF a > b THEN a ELSE b

\* all texts over alphabet A of length at most n
RECURSIVE SeqsUpTo(_, _)
SeqsUpTo(A, n) ==
    IF n = 0 THEN {<<>>}
    ELSE LET shorter == SeqsUpTo(A, n - 1)
         IN  shorter \cup {Append(t, c) : t \in {u \in shorter : Len(u) = n - 1}, c \in A}

Drop(t, k) == SubSeq(t, k + 1, Len(t))

Take(t, k) == SubSeq(t, 1, k)

\* length of the longest prefix of t whose characters all satisfy the class
RECURSIVE SpaceRun(_)
SpaceRun(t) == IF t # <<>> /\ IsSpace(Head(t)) THEN 1 + SpaceRun(Tail(t)) ELSE 0

\* index of the first occurrence of character c in t, 0 when absent
RECURSIVE IndexOf(_, _)
IndexOf(t, c) ==
    IF t = <<>> THEN 0
    ELSE IF Head(t) = c THEN 1
    ELSE LET r == IndexOf(Tail(t), c) IN IF r = 0 THEN 0 ELSE r + 1

\* str.strip(): whitespace removed at both ends
RECURSIVE LStrip(_)
LStrip(t) == IF t # <<>> /\ IsSpace(Head(t)) THEN LStrip(Tail(t)) ELSE t

RECURSIVE RStrip(_)
RStrip(t) == IF t # <<>> /\ IsSpace(t[Len(t)]) THEN RStrip(Take(t, Len(t) - 1)) ELSE t

Strip(t) == RStrip(LStrip(t))

-----------------------------------------------------------------------------
(* cfel.clean_text                                                         *)

\* paren_re.sub("", s), paren_re = \s*\([^)]*\): at the leftmost position where
\* a whitespace run, "(", and a later ")" follow, everything up to the first ")"
\* is removed; the scan goes on after it.
RECURSIVE ParenSub(_)
ParenSub(t) ==
    IF t = <<>> THEN <<>>
    ELSE LET k     == SpaceRun(t)
             rest  == Drop(t, k)
             close == IF rest # <<>> /\ Head(rest) = "(" THEN IndexOf(Tail(rest), ")") ELSE 0
         IN  IF close > 0 THEN ParenSub(Drop(rest, close + 1))
             ELSE <<Head(t)>> \o ParenSub(Tail(t))

\* re.sub(r"\s+,", ",", .): a whitespace run right before a comma is removed
RECURSIVE SpaceCommaSub(_)
SpaceCommaSub(t) ==
    IF t = <<>> THEN <<>>
    ELSE LET k == SpaceRun(t)
         IN  IF k > 0 /\ k < Len(t) /\ t[k + 1] = ","
             THEN <<",">> \o SpaceCommaSub(Drop(t, k + 1))
             ELSE <<Head(t)>> \o SpaceCommaSub(Tail(t))

\* re.sub(r"\s{2,}", " ", .): a run of two or more whitespace becomes one space
RECURSIVE CollapseSub(_)
CollapseSub(t) ==
    IF t = <<>> THEN <<>>
    ELSE LET k == SpaceRun(t)
         IN  IF k >= 2 THEN <<" ">> \o CollapseSub(Drop(t, k))
             ELSE <<Head(t)>> \o CollapseSub(Tail(t))

\* a variant of CommaSub that keeps the whitespace after the comma
RECURSIVE CommaSubKeep(_)
CommaSubKeep(t) ==
    IF t = <<>> THEN <<>>
    ELSE IF Head(t) = "," THEN <<",", " ">> \o CommaSubKeep(Tail(t))
    ELSE <<Head(t)>> \o CommaSubKeep(Tail(t))

\* re.sub(r",\s*", ", ", .): every comma and the whitespace after it becomes ", "
RECURSIVE CommaSub(_)
CommaSub(t) ==
    IF t = <<>> THEN <<>>
    ELSE IF Head(t) = ","
         THEN <<",", " ">> \o CommaSub(Drop(Tail(t), SpaceRun(Tail(t))))
         ELSE <<Head(t)>> \o CommaSub(Tail(t))

clean_text(t) == CommaSub(Strip(CollapseSub(SpaceCommaSub(ParenSub(t)))))

CleanAlphabet == {"(", ")", ",", " ", "\t", "a"}

CleanInit ==
    /\ pc = "clean"
    /\ s \in SeqsUpTo(CleanAlphabet, MaxLen)
    /\ cleaned = None
    /\ recleaned = None

cleanVars == <<s, cleaned, recleaned>>

priceVars == <<text, price>>

resolverVars == <<dd_elements, item>>

formatVars == <<meals, special_first, start_index, output>>

entryVars == <<header, daily_menu, menu>>

desyVars == <<pdf_tables, caller>>

weekVars == <<page_text, table>>

\* the variables of the functions that do not run hold these values
CleanIdle == s = None /\ cleaned = None /\ recleaned = None

PriceIdle == text = None /\ price = NoPrice

ResolverIdle == dd_elements = <<>> /\ item = None

FormatIdle == meals = <<>> /\ special_first = FALSE /\ start_index = 1 /\ output = None

EntryIdle == header = <<>> /\ daily_menu = <<>> /\ menu = None

DesyIdle == pdf_tables = <<>> /\ caller = "none"

DayIdle == target_day = None

WeekIdle == page_text = None /\ table = <<>>

InitClean ==
    /\ CleanInit
    /\ PriceIdle /\ ResolverIdle /\ FormatIdle /\ EntryIdle /\ DesyIdle /\ DayIdle /\ WeekIdle

CleanFrame ==
    UNCHANGED <<priceVars, resolverVars, formatVars, entryVars, desyVars, target_day, weekVars>>

\* cleaned = clean_text(s)
Clean ==
    /\ pc = "clean"
    /\ cleaned' = clean_text(s)
    /\ pc' = "reclean"
    /\ UNCHANGED <<s, recleaned>>
    /\ CleanFrame

\* recleaned = clean_text(cleaned)
Reclean ==
    /\ pc = "reclean"
    /\ recleaned' = clean_text(cleaned)
    /\ pc' = "done"
    /\ UNCHANGED <<s, cleaned>>
    /\ CleanFrame

NextClean == Clean \/ Reclean

SpecClean == InitClean /\ [][NextClean]_vars

\* C10: clean_text is idempotent: cleaning a cleaned text changes nothing.
C10_Idempotent == pc = "done" => recleaned = cleaned

\* a text with a parenthesised block, a stray space before a comma and a comma
\* without a space after it has been cleaned twice, and cleaning changed it
C10_Witness ==
    /\ pc = "done"
    /\ s = <<"a", "(", ")", " ", ",">>
    /\ cleaned = <<"a", ",", " ">>
    /\ recleaned = cleaned

-----------------------------------------------------------------------------
(* cfel.parse_price, cfel.PRICE_RE = (\d+[.,]\d{2})\s*€                    *)

DigitVal(c) ==
    CASE c = "0" -> 0 [] c = "1" -> 1 [] c = "2" -> 2 [] c = "3" -> 3 [] c = "4" -> 4
      [] c = "5" -> 5 [] c = "6" -> 6 [] c = "7" -> 7 [] c = "8" -> 8 [] c = "9" -> 9

\* the number a run of digits denotes
RECURSIVE Num(_)
Num(t) == IF t = <<>> THEN 0 ELSE 10 * Num(Take(t, Len(t) - 1)) + DigitVal(t[Len(t)])

RECURSIVE DigitRun(_)
DigitRun(t) == IF t # <<>> /\ IsDigit(Head(t)) THEN 1 + DigitRun(Tail(t)) ELSE 0

IsSeparator(c) == c \in {".", ","}

\* a variant of IsPriceSeparator that knows the comma only
IsCommaOnly(c) == c = ","

\* [.,] of PRICE_RE
IsPriceSeparator(c) == IsSeparator(c)

\* PRICE_RE matched at the start of t: the cents of group(1) after
\* replace(",", ".") and float(), or None.  \d+ takes the whole digit run (a
\* shorter one is followed by a digit, never by a separator), \s* the whole
\* whitespace run.
PriceMatchAtStart(t) ==
    LET n    == DigitRun(t)
        frac == Drop(t, n + 1)
        tail == Drop(frac, 2)
        sym  == Drop(tail, SpaceRun(tail))
    IN  IF /\ n >= 1
           /\ Len(t) >= n + 3
           /\ IsPriceSeparator(t[n + 1])
           /\ IsDigit(frac[1]) /\ IsDigit(frac[2])
           /\ sym # <<>> /\ Head(sym) = Euro
        THEN 100 * Num(Take(t, n)) + Num(Take(frac, 2))
        ELSE NoPrice

\* PRICE_RE.search(text): the leftmost position where the pattern matches
RECURSIVE parse_price(_)
parse_price(t) ==
    IF t = <<>> THEN NoPrice
    ELSE LET m == PriceMatchAtStart(t)
         IN  IF m # NoPrice THEN m ELSE parse_price(Tail(t))

PriceAlphabet == {"1", "2", ",", ".", " ", Euro}

Ex_TrailingSymbol == <<"4", ",", "3", "0", " ", Euro>>

Ex_NoPrice == <<"n", "o", " ", "p", "r", "i", "c", "e", " ", "h", "e", "r", "e">>

Ex_LeadingSymbol == <<Euro, "1", "2", ".", "5", "0", " ", "e", "x", "t", "r", "a">>

PriceInit ==
    /\ pc = "parse"
    /\ text \in SeqsUpTo(PriceAlphabet, MaxPriceLen)
                  \cup {Ex_TrailingSymbol, Ex_NoPrice, Ex_LeadingSymbol}
    /\ price = NoPrice

\* price = parse_price(text)
ParsePrice ==
    /\ pc = "parse"
    /\ price' = parse_price(text)
    /\ pc' = "done"
    /\ UNCHANGED text
    /\ UNCHANGED <<cleanVars, resolverVars, formatVars, entryVars, desyVars, target_day, weekVars>>

InitPrice ==
    /\ PriceInit
    /\ CleanIdle /\ ResolverIdle /\ FormatIdle /\ EntryIdle /\ DesyIdle /\ DayIdle /\ WeekIdle

NextPrice == ParsePrice

SpecPrice == InitPrice /\ [][NextPrice]_vars

\* a price token in the trailing-symbol form starts at position i of t:
\* digits, a separator, two digits, optional whitespace, the currency symbol
TrailingTokenAt(t, i) ==
    \E j \in i..Len(t), k \in i..Len(t) :
        /\ j + 3 <= k
        /\ \A d \in i..j : IsDigit(t[d])
        /\ IsSeparator(t[j + 1])
        /\ IsDigit(t[j + 2]) /\ IsDigit(t[j + 3])
        /\ \A w \in (j + 4)..(k - 1) : IsSpace(t[w])
        /\ t[k] = Euro

\* a price token in the leading-symbol form starts at position i of t:
\* the currency symbol, optional whitespace, digits, a separator, two digits
LeadingTokenAt(t, i) ==
    \E j \in i..Len(t), k \in i..Len(t) :
        /\ t[i] = Euro
        /\ i < j /\ j <= k /\ k + 3 <= Len(t)
        /\ \A w \in (i + 1)..(j - 1) : IsSpace(t[w])
        /\ \A d \in j..k : IsDigit(t[d])
        /\ IsSeparator(t[k + 1])
        /\ IsDigit(t[k + 2]) /\ IsDigit(t[k + 3])

\* the cents of the decimal whose integer digits are t[i..j]
DecimalAt(t, i, j) == 100 * Num(SubSeq(t, i, j)) + 10 * DigitVal(t[j + 2]) + DigitVal(t[j + 3])

\* C6 (as amended): parse_price returns the value of the first price token in
\* the trailing-symbol form (digits, "." or ",", two digits, optional
\* whitespace, "€"), and none when the text holds no such token; a token in the
\* leading-symbol form is not read: "4,30 €" gives 4.30, "no price here" and
\* "€12.50 extra" give none.
C6_TrailingOnly ==
    pc = "done" =>
        /\ price = NoPrice <=> ~ \E i \in 1..Len(text) : TrailingTokenAt(text, i)
        /\ \A i \in 1..Len(text) :
               /\ TrailingTokenAt(text, i)
               /\ \A h \in 1..(i - 1) : ~ TrailingTokenAt(text, h)
               => \E j \in i..Len(text) :
                      /\ \A d \in i..j : IsDigit(text[d])
                      /\ IsSeparator(text[j + 1])
                      /\ price = DecimalAt(text, i, j)
        /\ text = Ex_TrailingSymbol => price = 430
        /\ text = Ex_NoPrice => price = NoPrice
        /\ text = Ex_LeadingSymbol => price = NoPrice

\* a text whose token has a comma and is followed by more text has been parsed
C6_Witness ==
    /\ pc = "done"
    /\ text = <<"2", ",", "2", "1", Euro, "1">>
    /\ price = 221

\* C6 (as stated): a token in either form is read, and "€12.50 extra" gives 12.50.
C6_EitherForm ==
    pc = "done" =>
        /\ price = NoPrice <=> ~ \E i \in 1..Len(text) :
                                  TrailingTokenAt(text, i) \/ LeadingTokenAt(text, i)
        /\ text = Ex_TrailingSymbol => price = 430
        /\ text = Ex_NoPrice => price = NoPrice
        /\ text = Ex_LeadingSymbol => price = 1250

-----------------------------------------------------------------------------
(* cfel.scrape_headlines_and_prices: the price roles of one meal           *)
(* (PriceRoleResolver).  The item's headline is set before the two passes  *)
(* and is not read by them.                                                *)

UpperCase == <<"A", "B", "C", "D", "E", "F", "G", "H", "I", "J", "K", "L", "M",
               "N", "O", "P", "Q", "R", "S", "T", "U", "V", "W", "X", "Y", "Z">>

LowerCase == <<"a", "b", "c", "d", "e", "f", "g", "h", "i", "j", "k", "l", "m",
               "n", "o", "p", "q", "r", "s", "t", "u", "v", "w", "x", "y", "z">>

LowerChar(c) ==
    IF \E i \in 1..Len(UpperCase) : UpperCase[i] = c
    THEN LowerCase[CHOOSE i \in 1..Len(UpperCase) : UpperCase[i] = c]
    ELSE c

\* str.lower()
Lower(t) == [i \in 1..Len(t) |-> LowerChar(t[i])]

\* sub in t
Contains(sub, t) ==
    \E i \in 0..(Len(t) - Len(sub)) : SubSeq(t, i + 1, i + Len(sub)) = sub

kw_stud == <<"s", "t", "u", "d">>
kw_studierende == <<"s", "t", "u", "d", "i", "e", "r", "e", "n", "d", "e">>
kw_student == <<"s", "t", "u", "d", "e", "n", "t">>
kw_bedienst == <<"b", "e", "d", "i", "e", "n", "s", "t">>
kw_bedienstete == <<"b", "e", "d", "i", "e", "n", "s", "t", "e", "t", "e">>
kw_bediensteten == <<"b", "e", "d", "i", "e", "n", "s", "t", "e", "t", "e", "n">>
kw_mitarbeit == <<"m", "i", "t", "a", "r", "b", "e", "i", "t">>
kw_gaeste == <<"g", AUml, "s", "t", "e">>

\* the conditions of the two elif branches that set employee_price; in the
\* first, "and" binds tighter than "or": the guest clause is ("gäste" in lower
\* and False)
EmployeeLabel(lower) ==
    \/ \/ Contains(kw_bedienst, lower)
       \/ Contains(kw_bedienstete, lower)
       \/ Contains(kw_mitarbeit, lower)
       \/ Contains(kw_bedienstete, lower)
       \/ (Contains(kw_gaeste, lower) /\ FALSE)
    \/ \/ Contains(kw_bedienstete, lower)
       \/ Contains(kw_bedienstete, lower)
       \/ Contains(kw_bediensteten, lower)
       \/ Contains(kw_bedienst, lower)

StudentLabel(lower) ==
    \/ Contains(kw_stud, lower)
    \/ Contains(kw_studierende, lower)
    \/ Contains(kw_student, lower)

\* the body of the classification loop for one cell
ClassifyCell(it, dd) ==
    LET p     == parse_price(dd)
        lower == Lower(dd)
    IN  IF p = NoPrice THEN it
        ELSE IF StudentLabel(lower) THEN [it EXCEPT !.student_price = p]
        ELSE IF EmployeeLabel(lower) THEN [it EXCEPT !.employee_price = p]
        ELSE it

RECURSIVE ClassifyAll(_, _)
ClassifyAll(it, dds) ==
    IF dds = <<>> THEN it ELSE ClassifyAll(ClassifyCell(it, Head(dds)), Tail(dds))

\* prices_in_order: the parsed prices of the cells, in cell order
RECURSIVE PricesInOrder(_)
PricesInOrder(dds) ==
    IF dds = <<>> THEN <<>>
    ELSE LET p == parse_price(Head(dds))
         IN  (IF p = NoPrice THEN <<>> ELSE <<p>>) \o PricesInOrder(Tail(dds))

\* a variant of PositionalFallback that overwrites the roles the labels set
PositionalOverwrite(it, dds) ==
    LET prices_in_order == PricesInOrder(dds)
    IN  IF Len(prices_in_order) >= 2
        THEN [student_price |-> prices_in_order[1], employee_price |-> prices_in_order[2]]
        ELSE it

\* the fallback pass
PositionalFallback(it, dds) ==
    IF it.student_price = NoPrice \/ it.employee_price = NoPrice
    THEN LET prices_in_order == PricesInOrder(dds)
         IN  IF Len(prices_in_order) >= 2
             THEN [student_price  |-> IF it.student_price = NoPrice
                                      THEN prices_in_order[1] ELSE it.student_price,
                   employee_price |-> IF it.employee_price = NoPrice
                                      THEN prices_in_order[2] ELSE it.employee_price]
             ELSE it
    ELSE it

CellLabels == {<<>>, <<"S", "t", "u", "d", "i", "e", "r", "e", "n", "d", "e">>, <<"B", "e", "d", "i", "e", "n", "s", "t", "e", "t", "e">>, <<"M", "i", "t", "a", "r", "b", "e", "i", "t", "e", "r">>, <<"G", AUml, "s", "t", "e">>, <<"B", "e", "d", "i", "e", "n", "s", "t", "e", "t", "e", "/", "G", AUml, "s", "t", "e">>}

CellPrices == {<<>>, <<"4", ",", "3", "0", Euro>>, <<"5", ",", "1", "0", Euro>>}

CellText(label, p) ==
    IF label = <<>> THEN p ELSE IF p = <<>> THEN label ELSE label \o <<" ">> \o p

CellTexts == {CellText(label, p) : label \in CellLabels, p \in CellPrices}

ResolverInit ==
    /\ pc = "classify"
    /\ dd_elements \in SeqsUpTo(CellTexts, MaxCells)
    /\ item = [student_price |-> NoPrice, employee_price |-> NoPrice]

\* the classification pass: the loop over the cells that matches label words
Classify ==
    /\ pc = "classify"
    /\ item' = ClassifyAll(item, dd_elements)
    /\ pc' = "fallback"
    /\ UNCHANGED dd_elements
    /\ UNCHANGED <<cleanVars, priceVars, formatVars, entryVars, desyVars, target_day, weekVars>>

\* the fallback pass: positions, for the roles the labels left unset
Fallback ==
    /\ pc = "fallback"
    /\ item' = PositionalFallback(item, dd_elements)
    /\ pc' = "done"
    /\ UNCHANGED dd_elements
    /\ UNCHANGED <<cleanVars, priceVars, formatVars, entryVars, desyVars, target_day, weekVars>>

InitResolver ==
    /\ ResolverInit
    /\ CleanIdle /\ PriceIdle /\ FormatIdle /\ EntryIdle /\ DesyIdle /\ DayIdle /\ WeekIdle

NextResolver == Classify \/ Fallback

SpecResolver == InitResolver /\ [][NextResolver]_vars

\* the cells that parse to a price
Priced(dds) == {i \in 1..Len(dds) : parse_price(dds[i]) # NoPrice}

\* the i-th price in cell order
NthPrice(dds, n) ==
    parse_price(dds[CHOOSE i \in Priced(dds) : Cardinality({h \in Priced(dds) : h <= i}) = n])

Ex_Labelled == <<<<"S", "t", "u", "d", "i", "e", "r", "e", "n", "d", "e", " ", "4", ",", "3", "0", Euro>>, <<"B", "e", "d", "i", "e", "n", "s", "t", "e", "t", "e", " ", "5", ",", "1", "0", Euro>>>>

Ex_Unlabelled == <<<<"4", ",", "3", "0", Euro>>, <<"5", ",", "1", "0", Euro>>>>

\* C2: the fallback pass never changes a role the classification pass set; a
\* role the classification pass left unset receives the first (student) or the
\* second (employee) parsed price in cell order if and only if at least two
\* cells parse to a price, and stays unset otherwise; the labelled and the
\* unlabelled example both end with student 4.30 and employee 5.10.
C2_Fallback ==
    [][pc = "fallback" =>
         LET two == Cardinality(Priced(dd_elements)) >= 2
         IN  /\ item.student_price # NoPrice => item'.student_price = item.student_price
             /\ item.employee_price # NoPrice => item'.employee_price = item.employee_price
             /\ item.student_price = NoPrice /\ two
                    => item'.student_price = NthPrice(dd_elements, 1)
             /\ item.employee_price = NoPrice /\ two
                    => item'.employee_price = NthPrice(dd_elements, 2)
             /\ item.student_price = NoPrice /\ ~ two => item'.student_price = NoPrice
             /\ item.employee_price = NoPrice /\ ~ two => item'.employee_price = NoPrice
             /\ dd_elements \in {Ex_Labelled, Ex_Unlabelled}
                    => item' = [student_price |-> 430, employee_price |-> 510]
      ]_vars

\* the labels set the employee role only, and the fallback filled the student
\* role with the first price in cell order
C2_Witness ==
    /\ pc = "done"
    /\ dd_elements = <<<<"5", ",", "1", "0", Euro>>, <<"M", "i", "t", "a", "r", "b", "e", "i", "t", "e", "r", " ", "4", ",", "3", "0", Euro>>>>
    /\ item = [student_price |-> 510, employee_price |-> 430]

\* the cells the classification pass may set employee_price from, when a cell
\* containing "gäste" is excluded from the employee bucket
EmployeeCells(dds) ==
    {i \in Priced(dds) :
        /\ ~ StudentLabel(Lower(dds[i]))
        /\ \/ Contains(kw_bedienst, Lower(dds[i]))
           \/ Contains(kw_mitarbeit, Lower(dds[i]))
           \/ Contains(kw_bediensteten, Lower(dds[i]))
        /\ ~ Contains(kw_gaeste, Lower(dds[i]))}

\* C3: the classification pass never sets employee_price from a cell whose text
\* contains "gäste", also when the text holds an employee keyword: after the
\* pass, employee_price is the price of the last employee cell without "gäste",
\* and unset when there is none.
C3_GuestExcluded ==
    pc = "fallback" =>
        LET E == EmployeeCells(dd_elements)
        IN  item.employee_price =
                IF E = {} THEN NoPrice
                ELSE parse_price(dd_elements[CHOOSE i \in E : \A h \in E : h <= i])

-----------------------------------------------------------------------------
(* cfel.format_menus (MenuFormatter)                                       *)

\* what calling a method of None raises
AttributeError == <<"AttributeError">>

DigitChar(d) == SubSeq(<<"0", "1", "2", "3", "4", "5", "6", "7", "8", "9">>, d + 1, d + 1)

\* str(n) of an integer, as an f-string renders it
RECURSIVE IntToStr(_)
IntToStr(n) ==
    IF n < 0 THEN <<"-">> \o IntToStr(0 - n)
    ELSE IF n < 10 THEN DigitChar(n)
    ELSE IntToStr(n \div 10) \o DigitChar(n % 10)

\* f"{x:.2f}" of a price of c cents
Fixed2(c) == IntToStr(c \div 100) \o <<".">> \o DigitChar((c % 100) \div 10) \o DigitChar(c % 10)

\* str.rstrip("."): every trailing period removed
RECURSIVE RStripPeriod(_)
RStripPeriod(t) ==
    IF t # <<>> /\ t[Len(t)] = "." THEN RStripPeriod(Take(t, Len(t) - 1)) ELSE t

PriceStr(it) ==
    IF it.student_price # NoPrice /\ it.employee_price # NoPrice
    THEN Fixed2(it.student_price) \o <<"/">> \o Fixed2(it.employee_price) \o <<Euro>>
    ELSE IF it.student_price # NoPrice THEN Fixed2(it.student_price) \o <<Euro>>
    ELSE IF it.employee_price # NoPrice THEN Fixed2(it.employee_price) \o <<Euro>>
    ELSE <<"N", "/", "A">>

\* a variant of MenuLabel that takes the item numbered 1 for the first
MenuLabelFirstIsOne(idx, special, start) ==
    IF special /\ idx = 1 THEN <<"S", "p", "e", "c", "i", "a", "l", " ", "M", "e", "n", "u">> ELSE <<"M", "e", "n", "u", " ">> \o IntToStr(idx)

\* the label of the item numbered idx
MenuLabel(idx, special, start) ==
    IF special /\ idx = start THEN <<"S", "p", "e", "c", "i", "a", "l", " ", "M", "e", "n", "u">> ELSE <<"M", "e", "n", "u", " ">> \o IntToStr(idx)

\* what follows the label in an item's line
EntryText(it) ==
    <<" ">> \o PriceStr(it) \o <<":", " ">> \o RStripPeriod(Strip(it.headline)) \o <<".">>

\* "\n".join(lines) 
RECURSIVE JoinLines(_)
JoinLines(lines) ==
    IF lines = <<>> THEN <<>>
    ELSE IF Len(lines) = 1 THEN lines[1]
    ELSE lines[1] \o <<"\n">> \o JoinLines(Tail(lines))

format_menus(ms, special, start) ==
    IF \E k \in 1..Len(ms) : ms[k].headline = None
    THEN AttributeError
    ELSE JoinLines([k \in 1..Len(ms) |->
                      MenuLabel(start + k - 1, special, start) \o EntryText(ms[k])])

Headlines == {None, <<>>, <<"S", "o", "u", "p">>, <<"S", "o", "u", "p", ".">>, <<" ", "P", "i", "e", ".", " ">>}

Items ==
    [headline : Headlines, student_price : {NoPrice, 300}, employee_price : {NoPrice, 510}]

StartIndexes == (0..MaxStart) \cup {9}

FormatInit ==
    /\ pc = "format"
    /\ meals \in SeqsUpTo(Items, MaxMeals)
    /\ special_first \in BOOLEAN
    /\ start_index \in StartIndexes
    /\ output = None

\* output = format_menus(meals, special_first, start_index)
FormatMenus ==
    /\ pc = "format"
    /\ output' = format_menus(meals, special_first, start_index)
    /\ pc' = "done"
    /\ UNCHANGED <<meals, special_first, start_index>>
    /\ UNCHANGED <<cleanVars, priceVars, resolverVars, entryVars, desyVars, target_day, weekVars>>

InitFormat ==
    /\ FormatInit
    /\ CleanIdle /\ PriceIdle /\ ResolverIdle /\ EntryIdle /\ DesyIdle /\ DayIdle /\ WeekIdle

NextFormat == FormatMenus

SpecFormat == InitFormat /\ [][NextFormat]_vars

\* the lines of a text: the pieces between its newlines; the empty text has none
RECURSIVE LinesOf(_)
LinesOf(t) ==
    IF t = <<>> THEN <<>>
    ELSE LET n == IndexOf(t, "\n")
         IN  IF n = 0 THEN <<t>>
             ELSE IF n = Len(t) THEN <<Take(t, n - 1), <<>>>>
             ELSE <<Take(t, n - 1)>> \o LinesOf(Drop(t, n))

StartsWith(t, pre) == Len(t) >= Len(pre) /\ Take(t, Len(pre)) = pre

\* every item has a headline text
AllHeadlined(ms) == \A k \in 1..Len(ms) : ms[k].headline # None

Ex_SoupItem == [headline |-> <<"S", "o", "u", "p">>, student_price |-> 300, employee_price |-> NoPrice]

\* C9: the output has one line per item, in input order, joined by single
\* newlines with no trailing newline; the item at 0-based position k is
\* labelled "Menu {start_index + k}", except that with special_first the first
\* item is labelled "Special Menu"; no other item is.
C9_Labels ==
    pc = "done" /\ AllHeadlined(meals) =>
        LET lines == LinesOf(output)
        IN  /\ Len(lines) = Len(meals)
            /\ \A k \in 1..Len(lines) :
                   /\ lines[k] =
                          (IF special_first /\ k = 1 THEN <<"S", "p", "e", "c", "i", "a", "l", " ", "M", "e", "n", "u">>
                           ELSE <<"M", "e", "n", "u", " ">> \o IntToStr(start_index + k - 1))
                          \o EntryText(meals[k])
                   /\ StartsWith(lines[k], <<"S", "p", "e", "c", "i", "a", "l", " ", "M", "e", "n", "u">>) => special_first /\ k = 1
            /\ meals = <<Ex_SoupItem>> /\ special_first
                   => output = <<"S", "p", "e", "c", "i", "a", "l", " ", "M", "e", "n", "u", " ", "3", ".", "0", "0", Euro, ":", " ", "S", "o", "u", "p", ".">>

\* two items numbered from 9 with special_first: the second is "Menu 10"
C9_Witness ==
    /\ pc = "done"
    /\ special_first
    /\ start_index = 9
    /\ meals = <<Ex_SoupItem, [headline |-> <<" ", "P", "i", "e", ".", " ">>, student_price |-> 300, employee_price |-> 510]>>
    /\ output = <<"S", "p", "e", "c", "i", "a", "l", " ", "M", "e", "n", "u", " ", "3", ".", "0", "0", Euro, ":", " ", "S", "o", "u", "p", ".", "\n", "M", "e", "n", "u", " ", "1", "0", " ", "3", ".", "0", "0", "/", "5", ".", "1", "0", Euro, ":", " ", "P", "i", "e", ".">>

\* the title part of an output line: what stands between the first ": " and
\* the closing period
TitlePart(line) ==
    LET c == IndexOf(line, ":") IN SubSeq(line, c + 2, Len(line) - 1)

\* C5 (MenuFormatter): no output line of format_menus has an empty title part.
C5_FormatTitleNonEmpty ==
    pc = "done" /\ AllHeadlined(meals) =>
        \A k \in 1..Len(LinesOf(output)) : TitlePart(LinesOf(output)[k]) # <<>>

-----------------------------------------------------------------------------
(* desy.clean_menu_text (EntryBuilder)                                     *)
(* desy.PRICE_RE = €\s*([\d\.,]+), NUTRITION_KEYWORDS, ALLERGENS_RE        *)

\* what float() raises on a numeral it cannot read
ValueError == <<"ValueError">>

\* the pieces of t between its newlines (str.splitlines(), up to a last empty
\* piece, which the caller drops with the other blank lines)
RECURSIVE SplitLines(_)
SplitLines(t) ==
    LET n == IndexOf(t, "\n")
    IN  IF n = 0 THEN <<t>> ELSE <<Take(t, n - 1)>> \o SplitLines(Drop(t, n))

RECURSIVE StripAll(_)
StripAll(ls) == IF ls = <<>> THEN <<>> ELSE <<Strip(Head(ls))>> \o StripAll(Tail(ls))

\* [ln.strip() for ln in cell.splitlines() if ln.strip()]
CellLines(cell) == SelectSeq(StripAll(SplitLines(cell)), LAMBDA ln : ln # <<>>)

\* every run of whitespace of t replaced by one space
RECURSIVE SingleSpaced(_)
SingleSpaced(t) ==
    IF t = <<>> THEN <<>>
    ELSE IF IsSpace(Head(t)) THEN <<" ">> \o SingleSpaced(Drop(t, SpaceRun(t)))
    ELSE <<Head(t)>> \o SingleSpaced(Tail(t))

\* " ".join(ln.split())
JoinSplit(t) == SingleSpaced(Strip(t))

\* str.strip(" /")
RECURSIVE StripSlashSpace(_)
StripSlashSpace(t) ==
    IF t # <<>> /\ Head(t) \in {" ", "/"} THEN StripSlashSpace(Tail(t))
    ELSE IF t # <<>> /\ t[Len(t)] \in {" ", "/"} THEN StripSlashSpace(Take(t, Len(t) - 1))
    ELSE t

\* " ".join(pieces)
RECURSIVE JoinSpace(_)
JoinSpace(pieces) ==
    IF pieces = <<>> THEN <<>>
    ELSE IF Len(pieces) = 1 THEN pieces[1]
    ELSE pieces[1] \o <<" ">> \o JoinSpace(Tail(pieces))

\* [\d\.,]
IsNumeralChar(c) == IsDigit(c) \/ c \in {".", ","}

RECURSIVE NumeralRun(_)
NumeralRun(t) == IF t # <<>> /\ IsNumeralChar(Head(t)) THEN 1 + NumeralRun(Tail(t)) ELSE 0

\* PRICE_RE.search(ln).group(1): the numeral after the leftmost currency symbol
\* that whitespace and at least one numeral character follow; <<>> without a match
RECURSIVE DesyPriceSearch(_)
DesyPriceSearch(ln) ==
    LET i == IndexOf(ln, Euro)
    IN  IF i = 0 THEN <<>>
        ELSE LET rest  == Drop(ln, i)
                 after == Drop(rest, SpaceRun(rest))
                 n     == NumeralRun(after)
             IN  IF n >= 1 THEN Take(after, n) ELSE DesyPriceSearch(rest)

\* the number of separators of a numeral
RECURSIVE Separators(_)
Separators(t) ==
    IF t = <<>> THEN 0 ELSE (IF IsSeparator(Head(t)) THEN 1 ELSE 0) + Separators(Tail(t))

\* float(numeral.replace(",", ".")) succeeds: at most one point, at least one digit
FloatReadable(numeral) == Separators(numeral) <= 1 /\ Separators(numeral) < Len(numeral)

\* the cents of a readable numeral.  f"{x:.2f}" rounds a numeral of more than
\* two fraction digits; the model draws none and reads the first two.
NumeralCents(numeral) ==
    LET n    == DigitRun(numeral)
        frac == Drop(numeral, n + 1) \o <<"0", "0">>
    IN  100 * Num(Take(numeral, n)) + Num(Take(frac, 2))

kw_main == <<"m", "a", "i", "n">>

\* NUTRITION_KEYWORDS
IsNutrition(ln) ==
    \/ Contains(<<"k", "c", "a", "l">>, ln) \/ Contains(<<"P", ":">>, ln)
    \/ Contains(<<"F", ":">>, ln) \/ Contains(<<"C", ":">>, ln)

\* ALLERGENS_RE.match(ln)
IsAllergens(ln) ==
    /\ ln # <<>>
    /\ \A i \in 1..Len(ln) :
           IsDigit(ln[i]) \/ IsSpace(ln[i]) \/ ln[i] \in {")", "(", ".", "-", ",", "/"}

\* index of the first line PRICE_RE matches, 0 when none does
RECURSIVE FirstPriced(_)
FirstPriced(lines) ==
    IF lines = <<>> THEN 0
    ELSE IF DesyPriceSearch(Head(lines)) # <<>> THEN 1
    ELSE LET r == FirstPriced(Tail(lines)) IN IF r = 0 THEN 0 ELSE r + 1

RECURSIVE TitlePieces(_)
TitlePieces(title_lines) ==
    IF title_lines = <<>> THEN <<>>
    ELSE <<StripSlashSpace(JoinSplit(Head(title_lines)))>> \o TitlePieces(Tail(title_lines))

\* the pair is skipped: not hdr or not hdr.strip() or not cell
Skipped(hdr, cell) ==
    hdr = None \/ hdr = <<>> \/ Strip(hdr) = <<>> \/ cell = None \/ cell = <<>>

\* the body of the loop for one pair that is not skipped: the sequence of the
\* lines it appends to lines_out (none or one), or ValueError
EntryOf(hdr, cell) ==
    LET label == IF StartsWith(Lower(hdr), kw_main) THEN <<"M", "e", "n", "u", " ", "1">> ELSE Strip(hdr)
        lines == CellLines(cell)
        i     == FirstPriced(lines)
    IN  IF i > 0
        THEN LET numeral == DesyPriceSearch(lines[i])
                 title   == JoinSpace(TitlePieces(Take(lines, i - 1)))
             IN  IF ~ FloatReadable(numeral) THEN ValueError
                 ELSE IF title = <<>> THEN <<>>
                 ELSE <<label \o <<" ">> \o Fixed2(NumeralCents(numeral)) \o <<Euro>>
                              \o <<":", " ">> \o title>>
        ELSE LET kept        == SelectSeq(lines, LAMBDA ln : ~ IsNutrition(ln) /\ ~ IsAllergens(ln))
                 title_lines == IF kept = <<>> /\ lines # <<>> THEN <<lines[1]>> ELSE kept
                 title       == JoinSpace(TitlePieces(title_lines))
             IN  IF title = <<>> THEN <<>>
                 ELSE <<label \o <<":", " ">> \o title>>

\* lines_out after the pairs from position k on, or ValueError
RECURSIVE LinesOut(_, _, _)
LinesOut(hdrs, row, k) ==
    IF k > Min(Len(hdrs), Len(row)) THEN <<>>
    ELSE IF Skipped(hdrs[k], row[k]) THEN LinesOut(hdrs, row, k + 1)
    ELSE LET e == EntryOf(hdrs[k], row[k])
         IN  IF e = ValueError THEN ValueError
             ELSE LET r == LinesOut(hdrs, row, k + 1)
                  IN  IF r = ValueError THEN ValueError ELSE e \o r

clean_menu_text(hdrs, row) ==
    LET lines_out == LinesOut(hdrs, row, 1)
    IN  IF lines_out = ValueError THEN ValueError ELSE JoinLines(lines_out)

HeaderCells == {None, <<" ">>, <<"M", "a", "i", "n", " ", "m", "e", "a", "l">>, <<" ", "m", "a", "i", "n">>, <<"M", "e", "n", "u", " ", "2">>}

LinePool == {<<"S", "o", "u", "p">>, <<Euro, "5", ",", "0", "0">>, <<"P", ":", " ", "2", "g">>, <<"1", ",", "2">>, <<" ", "/", "F", "i", "s", "h", " ", " ", "p", "i", "e", "/">>, <<Euro, "1", ".", "2", ".", "3">>, <<"t", "e", "a", " ", Euro, " ", "3", ",", "5">>, <<"/">>}

\* the cells of at most n lines
RECURSIVE CellsUpTo(_)
CellsUpTo(n) ==
    IF n = 0 THEN {<<>>}
    ELSE CellsUpTo(n - 1)
         \cup LinePool
         \cup {c \o <<"\n">> \o ln : c \in CellsUpTo(n - 1) \ {<<>>}, ln \in LinePool}

Ex_Header == <<<<>>, <<"M", "a", "i", "n", " ", "m", "e", "a", "l">>, <<"M", "e", "n", "u", " ", "2">>>>

Ex_Row == <<<<>>, <<"S", "p", "a", "g", "h", "e", "t", "t", "i", "\n", Euro, "5", ",", "0", "0">>, <<"S", "a", "l", "a", "d", "\n", "P", ":", " ", "2", "g">>>>

EntryInit ==
    /\ pc = "entry"
    /\ \/ /\ header \in SeqsUpTo(HeaderCells, MaxCols)
          /\ daily_menu \in SeqsUpTo(CellsUpTo(MaxLines) \cup {None}, MaxCols)
       \/ /\ header = Ex_Header
          /\ daily_menu = Ex_Row
    /\ menu = None

\* menu = clean_menu_text(header, daily_menu)
CleanMenuText ==
    /\ pc = "entry"
    /\ menu' = clean_menu_text(header, daily_menu)
    /\ pc' = "done"
    /\ UNCHANGED <<header, daily_menu>>
    /\ UNCHANGED <<cleanVars, priceVars, resolverVars, formatVars, desyVars, target_day, weekVars>>

InitEntry ==
    /\ EntryInit
    /\ CleanIdle /\ PriceIdle /\ ResolverIdle /\ FormatIdle /\ DesyIdle /\ DayIdle /\ WeekIdle

NextEntry == CleanMenuText

SpecEntry == InitEntry /\ [][NextEntry]_vars

\* PRICE_RE of desy.py finds a price token in ln: the currency symbol, optional
\* whitespace, a digit, point or comma
HasPriceToken(ln) ==
    \E i \in 1..Len(ln), j \in 1..Len(ln) :
        /\ i < j
        /\ ln[i] = Euro
        /\ \A w \in (i + 1)..(j - 1) : IsSpace(ln[w])
        /\ IsNumeralChar(ln[j])

\* the line the claim gives for one pair that is not skipped; the pair gives no
\* line when its title is empty 
ClaimedEntry(hdr, cell) ==
    LET label  == IF StartsWith(Lower(hdr), kw_main) THEN <<"M", "e", "n", "u", " ", "1">> ELSE Strip(hdr)
        lines  == CellLines(cell)
        priced == {i \in 1..Len(lines) : HasPriceToken(lines[i])}
    IN  IF priced # {}
        THEN LET i     == CHOOSE i \in priced : \A h \in priced : i <= h
                 title == JoinSpace(TitlePieces(Take(lines, i - 1)))
                 cents == NumeralCents(DesyPriceSearch(lines[i]))
             IN  IF title = <<>> THEN <<>>
                 ELSE <<label \o <<" ">> \o IntToStr(cents \div 100) \o <<".">>
                              \o DigitChar((cents % 100) \div 10) \o DigitChar(cents % 10)
                              \o <<Euro>> \o <<":", " ">> \o title>>
        ELSE LET dropped == {i \in 1..Len(lines) : IsNutrition(lines[i]) \/ IsAllergens(lines[i])}
                 kept    == SelectSeq(lines, LAMBDA ln : ~ IsNutrition(ln) /\ ~ IsAllergens(ln))
                 title   == JoinSpace(TitlePieces(
                                IF Cardinality(dropped) = Len(lines) /\ lines # <<>>
                                THEN <<lines[1]>> ELSE kept))
             IN  IF title = <<>> THEN <<>> ELSE <<label \o <<":", " ">> \o title>>

RECURSIVE ClaimedLines(_, _, _)
ClaimedLines(hdrs, row, k) ==
    IF k > Min(Len(hdrs), Len(row)) THEN <<>>
    ELSE (IF Skipped(hdrs[k], row[k]) THEN <<>> ELSE ClaimedEntry(hdrs[k], row[k]))
         \o ClaimedLines(hdrs, row, k + 1)

\* C1: for every pair with a non-blank header and a non-empty cell the entry
\* renders: with a price token in some line, as "{label} {price}: {title}", the
\* title the space-join of the lines before the first such line and the price in
\* two fraction digits followed by the currency symbol; without one, as
\* "{label}: {title}" with nutrition and allergen lines dropped (the first line
\* kept when all are dropped); the label is "Menu 1" for a header that starts
\* with "main", else the trimmed header.  The example header and row give
\* "Menu 1 5.00€: Spaghetti" and "Menu 2: Salad".
C1_EntryBuilder ==
    pc = "done" =>
        /\ menu # ValueError
        /\ menu = JoinLines(ClaimedLines(header, daily_menu, 1))
        /\ header = Ex_Header /\ daily_menu = Ex_Row
               => menu = <<"M", "e", "n", "u", " ", "1", " ", "5", ".", "0", "0", Euro, ":", " ", "S", "p", "a", "g", "h", "e", "t", "t", "i", "\n", "M", "e", "n", "u", " ", "2", ":", " ", "S", "a", "l", "a", "d">>

\* whenever clean_menu_text returns, it returns the lines C1 gives
EntryBuilderWhenReturned ==
    pc = "done" /\ menu # ValueError =>
        /\ menu = JoinLines(ClaimedLines(header, daily_menu, 1))
        /\ header = Ex_Header /\ daily_menu = Ex_Row
               => menu = <<"M", "e", "n", "u", " ", "1", " ", "5", ".", "0", "0", Euro, ":", " ", "S", "p", "a", "g", "h", "e", "t", "t", "i", "\n", "M", "e", "n", "u", " ", "2", ":", " ", "S", "a", "l", "a", "d">>

\* C5 (EntryBuilder): whenever clean_menu_text returns, every line it returns
\* ends in a non-empty title: no pair with an empty title is rendered
EntryTitleNonEmpty ==
    pc = "done" /\ menu # ValueError =>
        /\ Len(LinesOf(menu)) =
               Cardinality({k \in 1..Min(Len(header), Len(daily_menu)) :
                               /\ ~ Skipped(header[k], daily_menu[k])
                               /\ ClaimedEntry(header[k], daily_menu[k]) # <<>>})
        /\ \A k \in 1..Len(LinesOf(menu)) :
               LET line == LinesOf(menu)[k]
               IN  \E c \in 1..(Len(line) - 2) : line[c] = ":" /\ line[c + 1] = " "

-----------------------------------------------------------------------------
(* desy.extract_pdf_text, desy.find_daily_menu and its two callers: the    *)
(* script of desy.py and menu_post.extract_desy_menu                       *)

\* what indexing an empty list raises
IndexError == <<"IndexError">>

\* datetime.now(...).strftime("%d.%m.%Y"): the day the run takes place
date_str == <<"0", "1", ".", "0", "1", ".", "2", "0", "9", "9">>

\* any(date_str in col for col in row if col)
RowMatches(row) ==
    \E c \in 1..Len(row) : row[c] # None /\ row[c] # <<>> /\ Contains(date_str, row[c])

\* the rows of all pages, in page order then row order
RECURSIVE AllRows(_)
AllRows(tables) == IF tables = <<>> THEN <<>> ELSE Head(tables) \o AllRows(Tail(tables))

\* a variant of find_daily_menu that returns the last matching row
find_daily_menu_last(tables) ==
    LET rows == AllRows(tables)
        hits == {i \in 1..Len(rows) : RowMatches(rows[i])}
    IN  IF hits = {} THEN <<>> ELSE rows[CHOOSE i \in hits : \A h \in hits : h <= i]

RECURSIVE FirstMatch(_)
FirstMatch(rows) ==
    IF rows = <<>> THEN <<>>
    ELSE IF RowMatches(Head(rows)) THEN Head(rows)
    ELSE FirstMatch(Tail(rows))

\* the two nested loops: the first row, page by page, with a cell that holds
\* date_str; [] when there is none
RECURSIVE find_daily_menu(_)
find_daily_menu(tables) ==
    IF tables = <<>> THEN <<>>
    ELSE LET row == FirstMatch(Head(tables))
         IN  IF row # <<>> THEN row ELSE find_daily_menu(Tail(tables))

UpperChar(c) ==
    IF \E i \in 1..Len(LowerCase) : LowerCase[i] = c
    THEN UpperCase[CHOOSE i \in 1..Len(LowerCase) : LowerCase[i] = c]
    ELSE c

IsLetter(c) == (\E i \in 1..Len(LowerCase) : LowerCase[i] = c \/ UpperCase[i] = c)

\* str.title(): the first letter of every word in upper case, the others in lower
Title(t) ==
    [i \in 1..Len(t) |->
        IF i = 1 \/ ~ IsLetter(t[i - 1]) THEN UpperChar(t[i]) ELSE LowerChar(t[i])]

Msg_TodayNotFound == <<"T", "o", "d", "a", "y", "'", "s", " ", "m", "e", "n", "u", " ", "n", "o", "t", " ", "f", "o", "u", "n", "d", ".">>

Msg_NoDesyMenu == <<"N", "o", " ", "D", "E", "S", "Y", " ", "m", "e", "n", "u", " ", "f", "o", "u", "n", "d", " ", "f", "o", "r", " ">>

\* the rows a page's table is drawn from
RowPool ==
    { <<<<>>, <<"M", "a", "i", "n", " ", "m", "e", "a", "l">>>>,
      <<<<"M", "o", "n", " ", "0", "1", ".", "0", "1", ".", "2", "0", "9", "9">>, <<"S", "o", "u", "p", "\n", Euro, "5", ",", "0", "0">>>>,
      <<None, <<"0", "1", ".", "0", "1", ".", "2", "0", "9", "9">>>>,
      <<<<"T", "u", "e", " ", "0", "2", ".", "0", "1", ".", "2", "0", "9", "9">>, <<"S", "a", "l", "a", "d", "\n", "P", ":", " ", "2", "g">>>>,
      <<<<"0", "1", ".", "0", "1", ".", "2", "0", "9", "9">>, <<"F", "i", "s", "h", "\n", Euro, "1", ".", "2", ".", "3">>>>,
      <<>> }

DesyInit ==
    /\ pc = "extract"
    /\ pdf_tables = <<>>
    /\ \/ caller = "desy" /\ target_day = None
       \/ caller = "menu_post" /\ target_day \in {<<"m", "o", "n", "d", "a", "y">>, <<"f", "r", "i", "d", "a", "y">>}
    /\ header = <<>>
    /\ daily_menu = <<>>
    /\ menu = None

DesyFrame == UNCHANGED <<cleanVars, priceVars, resolverVars, formatVars, weekVars>>

\* extract_pdf_text, one page of the loop: the page's table, [] when the page
\* has none, is appended
ExtractPage ==
    /\ pc = "extract"
    /\ Len(pdf_tables) < MaxPages
    /\ \E extracted \in BOOLEAN :
       \E t \in SeqsUpTo(RowPool, MaxRows - Len(AllRows(pdf_tables))) :
           pdf_tables' = Append(pdf_tables, IF extracted THEN t ELSE <<>>)
    /\ UNCHANGED <<pc, caller, target_day, header, daily_menu, menu>>
    /\ DesyFrame

\* daily_menu = find_daily_menu(pdf_tables), after the last page
FindDailyMenu ==
    /\ pc = "extract"
    /\ daily_menu' = find_daily_menu(pdf_tables)
    /\ pc' = "found"
    /\ UNCHANGED <<pdf_tables, caller, target_day, header, menu>>
    /\ DesyFrame

\* the script of desy.py, after the lookup
DesyMain ==
    /\ pc = "found"
    /\ caller = "desy"
    /\ IF daily_menu # <<>>
       THEN IF pdf_tables[1] = <<>>
            THEN menu' = IndexError /\ UNCHANGED header
            ELSE /\ header' = pdf_tables[1][1]
                 /\ menu' = clean_menu_text(pdf_tables[1][1], daily_menu)
       ELSE menu' = Msg_TodayNotFound /\ UNCHANGED header
    /\ pc' = "done"
    /\ UNCHANGED <<pdf_tables, caller, target_day, daily_menu>>
    /\ DesyFrame

\* menu_post.extract_desy_menu, after the lookup
ExtractDesyMenu ==
    /\ pc = "found"
    /\ caller = "menu_post"
    /\ IF daily_menu = <<>>
       THEN menu' = Msg_NoDesyMenu \o Title(target_day) /\ UNCHANGED header
       ELSE IF pdf_tables[1] = <<>>
            THEN menu' = IndexError /\ UNCHANGED header
            ELSE /\ header' = pdf_tables[1][1]
                 /\ menu' = clean_menu_text(pdf_tables[1][1], daily_menu)
    /\ pc' = "done"
    /\ UNCHANGED <<pdf_tables, caller, target_day, daily_menu>>
    /\ DesyFrame

InitDesy ==
    /\ DesyInit
    /\ CleanIdle /\ PriceIdle /\ ResolverIdle /\ FormatIdle /\ WeekIdle

NextDesy == ExtractPage \/ FindDailyMenu \/ DesyMain \/ ExtractDesyMenu

SpecDesy == InitDesy /\ [][NextDesy]_vars

\* row r of page p of the tables has a cell that holds the date
MatchAt(p, r) ==
    \E c \in 1..Len(pdf_tables[p][r]) :
        LET col == pdf_tables[p][r][c]
        IN  /\ col # None
            /\ \E i \in 1..Len(col) :
                   i + Len(date_str) - 1 <= Len(col)
                   /\ \A d \in 1..Len(date_str) : col[i + d - 1] = date_str[d]

Matches == {pr \in (1..MaxPages + 1) \X (1..MaxRows + 1) :
               /\ pr[1] <= Len(pdf_tables)
               /\ pr[2] <= Len(pdf_tables[pr[1]])
               /\ MatchAt(pr[1], pr[2])}

\* pr comes no later than qr in page order, then row order
NoLater(pr, qr) == pr[1] < qr[1] \/ (pr[1] = qr[1] /\ pr[2] <= qr[2])

\* C8 (as amended): when no row of any page has a cell that holds the date, the
\* lookup returns no row, and its caller emits a sentinel line: the script of
\* desy.py exactly "Today's menu not found.", extract_desy_menu of menu_post.py
\* "No DESY menu found for {Weekday}"; when some row matches, the lookup returns
\* the first matching row in page order, then row order.
C8_LookupAndSentinels ==
    pc \in {"found", "done"} =>
        /\ Matches = {} => daily_menu = <<>>
        /\ \A pr \in Matches :
               (\A qr \in Matches : NoLater(pr, qr)) => daily_menu = pdf_tables[pr[1]][pr[2]]
        /\ pc = "done" /\ Matches = {} /\ caller = "desy"
               => menu = <<"T", "o", "d", "a", "y", "'", "s", " ", "m", "e", "n", "u", " ", "n", "o", "t", " ", "f", "o", "u", "n", "d", ".">>
        /\ pc = "done" /\ Matches = {} /\ caller = "menu_post" /\ target_day = <<"f", "r", "i", "d", "a", "y">>
               => menu = <<"N", "o", " ", "D", "E", "S", "Y", " ", "m", "e", "n", "u", " ", "f", "o", "u", "n", "d", " ", "f", "o", "r", " ", "F", "r", "i", "d", "a", "y">>
        /\ pc = "done" /\ Matches = {} /\ caller = "menu_post" /\ target_day = <<"m", "o", "n", "d", "a", "y">>
               => menu = <<"N", "o", " ", "D", "E", "S", "Y", " ", "m", "e", "n", "u", " ", "f", "o", "u", "n", "d", " ", "f", "o", "r", " ", "M", "o", "n", "d", "a", "y">>

\* two pages, the first without a match, the second with two matching rows:
\* the lookup returned the first of the two
C8_Witness ==
    /\ pc = "done"
    /\ pdf_tables = << << <<<<"T", "u", "e", " ", "0", "2", ".", "0", "1", ".", "2", "0", "9", "9">>, <<"S", "a", "l", "a", "d", "\n", "P", ":", " ", "2", "g">>>> >>,
                       << <<None, <<"0", "1", ".", "0", "1", ".", "2", "0", "9", "9">>>>, <<<<"M", "o", "n", " ", "0", "1", ".", "0", "1", ".", "2", "0", "9", "9">>, <<"S", "o", "u", "p", "\n", Euro, "5", ",", "0", "0">>>> >> >>
    /\ daily_menu = <<None, <<"0", "1", ".", "0", "1", ".", "2", "0", "9", "9">>>>

\* no row matches, and extract_desy_menu has returned its sentinel line
C8_WitnessNoMatch ==
    /\ pc = "done"
    /\ caller = "menu_post"
    /\ Len(AllRows(pdf_tables)) > 0
    /\ Matches = {}
    /\ daily_menu = <<>>

\* C8 (as stated): when no row matches, the caller of the lookup emits exactly
\* "Today's menu not found."; when some row matches, the lookup returns the
\* first matching row.
C8_OneSentinel ==
    pc \in {"found", "done"} =>
        /\ Matches = {} => daily_menu = <<>>
        /\ \A pr \in Matches :
               (\A qr \in Matches : NoLater(pr, qr)) => daily_menu = pdf_tables[pr[1]][pr[2]]
        /\ pc = "done" /\ Matches = {} => menu = <<"T", "o", "d", "a", "y", "'", "s", " ", "m", "e", "n", "u", " ", "n", "o", "t", " ", "f", "o", "u", "n", "d", ".">>

\* C4: extraction over the tables of source B never raises: on an empty table
\* (also an empty first page before the page of the matching row), on absent
\* cells and on a currency symbol followed by a numeral that is no decimal, it
\* returns a text.
C4_NeverRaises ==
    pc = "done" => menu \notin {IndexError, ValueError}

-----------------------------------------------------------------------------
(* menu_post.extract_menu_for_day: the weekday-keyed table of source C     *)

RuntimeError_NotWeeklyPage == <<"RuntimeError", "This page does not look like the weekly menu page">>

RuntimeError_NoTable == <<"RuntimeError", "Could not extract table from menu page">>

RuntimeError_NoHeader == <<"RuntimeError", "Could not find header for target_day">>

Msg_NoEntries == <<"N", "o", " ", "m", "e", "n", "u", " ", "e", "n", "t", "r", "i", "e", "s", " ", "f", "o", "u", "n", "d", " ", "f", "o", "r", " ">>

\* WEEKDAYS, in the order of the list
WEEKDAYS == <<<<"m", "o", "n", "d", "a", "y">>, <<"t", "u", "e", "s", "d", "a", "y">>, <<"w", "e", "d", "n", "e", "s", "d", "a", "y">>, <<"t", "h", "u", "r", "s", "d", "a", "y">>, <<"f", "r", "i", "d", "a", "y">>>>

\* next((j for j, cell in enumerate(header) if cell and target in cell.lower()), None):
\* the index, from 0, of the first header cell that holds the target; -1 for None
RECURSIVE HeaderIdx(_, _, _)
HeaderIdx(hdr, target, j) ==
    IF j >= Len(hdr) THEN 0 - 1
    ELSE IF hdr[j + 1] # None /\ hdr[j + 1] # <<>> /\ Contains(target, Lower(hdr[j + 1])) THEN j
    ELSE HeaderIdx(hdr, target, j + 1)

\* a variant of ContentCol without the offset
ContentColSame(header_idx) == header_idx

\* content_col = max(header_idx - 1, 0)
ContentCol(header_idx) == Max(header_idx - 1, 0)

\* the body of the loop for one row: the lines it appends (none or one), or
\* AttributeError when the dish cell is absent
RowLines(row, content_col) ==
    IF row = <<>> \/ content_col >= Len(row) THEN <<>>
    ELSE LET label == IF row[1] # None /\ row[1] # <<>> THEN JoinSplit(row[1]) ELSE <<>>
         IN  IF row[content_col + 1] = None THEN AttributeError
             ELSE LET dish == JoinSplit(row[content_col + 1])
                  IN  IF dish = <<>> THEN <<>>
                      ELSE IF label # <<>> THEN <<label \o <<":", " ">> \o dish>>
                      ELSE <<dish>>

RECURSIVE DayLines(_, _)
DayLines(rows, content_col) ==
    IF rows = <<>> THEN <<>>
    ELSE LET e == RowLines(Head(rows), content_col)
         IN  IF e = AttributeError THEN AttributeError
             ELSE LET r == DayLines(Tail(rows), content_col)
                  IN  IF r = AttributeError THEN AttributeError ELSE e \o r

extract_menu_for_day(ptext, tbl, day) ==
    LET target == Lower(day)
        txt    == IF ptext = None THEN <<>> ELSE Lower(ptext)
    IN  IF ~ \A d \in 1..Len(WEEKDAYS) : Contains(WEEKDAYS[d], txt)
        THEN RuntimeError_NotWeeklyPage
        ELSE IF tbl = <<>> THEN RuntimeError_NoTable
        ELSE LET header_idx == HeaderIdx(tbl[1], target, 0)
             IN  IF header_idx = 0 - 1 THEN RuntimeError_NoHeader
                 ELSE LET lines == DayLines(SubSeq(tbl, 2, Min(4, Len(tbl))),
                                            ContentCol(header_idx))
                      IN  IF lines = AttributeError THEN AttributeError
                          ELSE IF lines # <<>> THEN JoinLines(lines)
                          ELSE Msg_NoEntries \o Title(target)

WeekHeaderCells == {None, <<"D", "a", "y">>, <<"M", "o", "n", " ", "C", "o", "n", "t", "e", "n", "t">>, <<"T", "u", "e", " ", "C", "o", "n", "t", "e", "n", "t">>}

Ex_WeekHeader == <<<<"D", "a", "y">>, <<"M", "o", "n", " ", "C", "o", "n", "t", "e", "n", "t">>, <<"T", "u", "e", " ", "C", "o", "n", "t", "e", "n", "t">>>>

DataRowPool ==
    { <<<<"L", "u", "n", "c", "h">>, <<"S", "o", "u", "p", " ", " ", "1">>, <<"P", "i", "e">>>>,
      <<None, <<>>, <<"F", "i", "s", "h">>>>,
      <<<<"S", "i", "d", "e", " ">>>>,
      <<>> }

WeekPageText == <<"M", "o", "n", "d", "a", "y", " ", "T", "u", "e", "s", "d", "a", "y", " ", "W", "e", "d", "n", "e", "s", "d", "a", "y", " ", "T", "h", "u", "r", "s", "d", "a", "y", " ", "F", "r", "i", "d", "a", "y">>

WeekInit ==
    /\ pc = "week"
    /\ target_day \in {<<"t", "u", "e">>, <<"M", "o", "n">>}
    /\ \/ /\ page_text = WeekPageText
          /\ \/ table = <<>>
             \/ \E hdr \in SeqsUpTo(WeekHeaderCells, MaxHeaderCols) \cup {Ex_WeekHeader},
                   rows \in SeqsUpTo(DataRowPool, MaxDataRows) :
                    table = <<hdr>> \o rows
       \/ /\ page_text \in {None, <<"M", "o", "n", "d", "a", "y", " ", "T", "u", "e", "s", "d", "a", "y">>}
          /\ table \in {<<>>, <<Ex_WeekHeader>>}
    /\ menu = None

\* menu = extract_menu_for_day(pdf_bytes, target_day)
ExtractMenuForDay ==
    /\ pc = "week"
    /\ menu' = extract_menu_for_day(page_text, table, target_day)
    /\ pc' = "done"
    /\ UNCHANGED <<page_text, table, target_day>>
    /\ UNCHANGED <<cleanVars, priceVars, resolverVars, formatVars, desyVars, header, daily_menu>>

InitWeek ==
    /\ WeekInit
    /\ CleanIdle /\ PriceIdle /\ ResolverIdle /\ FormatIdle /\ DesyIdle
    /\ header = <<>> /\ daily_menu = <<>>

NextWeek == ExtractMenuForDay

SpecWeek == InitWeek /\ [][NextWeek]_vars

\* header cell j (from 1) is present and its lowercase text holds the
\* lowercase target
HoldsTarget(j) ==
    LET cell == table[1][j]
        key  == Lower(target_day)
    IN  /\ cell # None
        /\ \E i \in 1..Len(cell) :
               /\ i + Len(key) - 1 <= Len(cell)
               /\ \A d \in 1..Len(key) : LowerChar(cell[i + d - 1]) = key[d]

\* the line of a data row whose dish is read from column col (from 1)
DishLine(row, col) ==
    LET dish == JoinSplit(row[col])
    IN  IF row[1] = None \/ JoinSplit(row[1]) = <<>> THEN dish
        ELSE JoinSplit(row[1]) \o <<":", " ">> \o dish

\* C7: the header index h is that of the first header cell whose lowercase text
\* holds the target weekday, and every dish text of the result is read from
\* column max(h - 1, 0) of the data rows; header ["Day", "Mon Content",
\* "Tue Content"] with target "tue" gives h = 2 and content column 1; when no
\* header cell holds the target, extraction fails with a header-not-found
\* failure, which is not the "No menu entries found" result.
C7_HeaderAndColumn ==
    pc = "done" /\ menu \notin {RuntimeError_NotWeeklyPage, RuntimeError_NoTable} =>
        LET H == {j \in 1..Len(table[1]) : HoldsTarget(j)}
        IN  /\ H = {} <=> menu = RuntimeError_NoHeader
            /\ RuntimeError_NoHeader # Msg_NoEntries \o Title(Lower(target_day))
            /\ H # {} /\ menu # AttributeError =>
                   LET h    == (CHOOSE j \in H : \A k \in H : j <= k) - 1
                       col  == (IF h - 1 > 0 THEN h - 1 ELSE 0) + 1
                       read == SelectSeq(SubSeq(table, 2, Min(4, Len(table))),
                                         LAMBDA row : /\ col <= Len(row)
                                                      /\ JoinSplit(row[col]) # <<>>)
                   IN  /\ table[1] = Ex_WeekHeader /\ target_day = <<"t", "u", "e">> => h = 2 /\ col - 1 = 1
                       /\ IF read = <<>>
                          THEN menu = Msg_NoEntries \o Title(Lower(target_day))
                          ELSE /\ Len(LinesOf(menu)) = Len(read)
                               /\ \A k \in 1..Len(read) :
                                      LinesOf(menu)[k] = DishLine(read[k], col)

\* the example header with target "tue": the dish is read from column 1, the
\* column under "Mon Content"
C7_Witness ==
    /\ pc = "done"
    /\ target_day = <<"t", "u", "e">>
    /\ table = <<Ex_WeekHeader, <<<<"L", "u", "n", "c", "h">>, <<"S", "o", "u", "p", " ", " ", "1">>, <<"P", "i", "e">>>>>>
    /\ menu = <<"L", "u", "n", "c", "h", ":", " ", "S", "o", "u", "p", " ", "1">>

\* no header cell holds the target, and the header-not-found failure was raised
C7_WitnessNoHeader ==
    /\ pc = "done"
    /\ target_day = <<"t", "u", "e">>
    /\ table = <<<<<<"D", "a", "y">>, <<"M", "o", "n", " ", "C", "o", "n", "t", "e", "n", "t">>>>, <<<<"L", "u", "n", "c", "h">>, <<"S", "o", "u", "p", " ", " ", "1">>, <<"P", "i", "e">>>>>>
    /\ menu = RuntimeError_NoHeader

====
